---- MODULE Spec2Model ----
(***************************************************************************)
(* Model of .claude-plugin/hooks/loop-stop-gate.py: the stop gate that a   *)
(* host runs before it lets a loop agent's turn end.  One behaviour is one *)
(* run of the process: Init draws the stdin payload, the environment and   *)
(* the state of the version-control tool; the actions are the statements   *)
(* of main() in program order.                                             *)
(*                                                                         *)
(* Text is modelled as a sequence of characters.  A character is a string; *)
(* the four characters that str.strip() and json.dumps treat specially are *)
(* NL, SP, DQ and BSL, every other character stands for itself (a run of   *)
(* ordinary characters of the fixed template is written as one character). *)
(***************************************************************************)
EXTENDS Integers, Sequences, FiniteSets, TLC

\* ---------------------------------------------------------------- bounds
\* Largest number of changed paths in the working tree.
MaxEntries == 2

\* Largest number of invocations the host makes in one behaviour.
MaxInvocations == 3

\* ------------------------------------------------------------ characters
NL == "NL"
SP == "SP"
DQ == "DQ"
BSL == "BSL"
BT == "BT"

\* str.strip() with no argument removes leading and trailing whitespace.
Whitespace == {SP, NL}

RECURSIVE LStrip(_)
LStrip(s) ==
    IF s # <<>> /\ Head(s) \in Whitespace THEN LStrip(Tail(s)) ELSE s

RECURSIVE RStrip(_)
RStrip(s) ==
    IF s # <<>> /\ s[Len(s)] \in Whitespace
    THEN RStrip(SubSeq(s, 1, Len(s) - 1))
    ELSE s

strip(s) == LStrip(RStrip(s))

\* s occurs in t as a contiguous run (Python's "s in t" on strings).
Contains(t, s) ==
    \E i \in 0..(Len(t) - Len(s)) : SubSeq(t, i + 1, i + Len(s)) = s

\* ------------------------------------------------------------ environment
EnvNames == {"CLAUDE_PIPELINE_AGENT", "CLAUDE_PIPELINE_SESSION", "CLAUDE_PROJECT_DIR"}

Unset == [set |-> FALSE, val |-> <<>>]
SetTo(v) == [set |-> TRUE, val |-> v]

\* Values the activation switch is given: unset, "", "1", "0", "false".
AgentValues == {Unset, SetTo(<<>>), SetTo(<<"1">>), SetTo(<<"0">>), SetTo(<<"false">>)}

\* Values the session name is given: unset, "alpha", "".
SessionValues == {Unset, SetTo(<<"alpha">>), SetTo(<<>>)}

\* Paths the project directory is given, and what each is on disk.
RepoPath == <<"/repo">>
MissingPath == <<"/gone">>
FilePath == <<"/repo/file.txt">>
ProjectDirValues == {Unset, SetTo(RepoPath), SetTo(MissingPath), SetTo(FilePath)}

PathKind(p) ==
    IF p = MissingPath THEN "missing"
    ELSE IF p = FilePath THEN "file"
    ELSE "dir"

\* os.getcwd(): the directory the host started the process in.
getcwd == RepoPath

\* A plausible slip: the default is not passed on.
get_env_no_default(e, name, default) == e[name].val

\* os.environ.get(name, default)
get_env(e, name, default) == IF e[name].set THEN e[name].val ELSE default

\* ------------------------------------------------------------- stdin
\* What the host puts on standard input.  kind: "empty" (nothing at all),
\* "malformed" (text that is not JSON), "undecodable" (bytes that are not
\* text in the stream's encoding), "json" (a JSON document of the given type;
\* for an object, flag is the value of its stop_hook_active member).
JsonTypes == {"null", "array", "string", "number", "bool", "object"}
FlagValues == {"absent", "true", "false", "str"}

StdinPayloads ==
    {[kind |-> k, type |-> "none", flag |-> "absent"] :
        k \in {"empty", "malformed", "undecodable"}}
    \cup {[kind |-> "json", type |-> t, flag |-> "absent"] :
        t \in JsonTypes \ {"object"}}
    \cup {[kind |-> "json", type |-> "object", flag |-> f] : f \in FlagValues}

\* The error handler of sys.stdin: "strict" under a UTF-8 locale,
\* "surrogateescape" under the C or POSIX locale.
StdinErrorHandlers == {"strict", "surrogateescape"}

NoValue == [type |-> "none", flag |-> "absent"]

\* json.load(sys.stdin): reading the stream decodes it, then the text is
\* parsed.  Undecodable bytes raise UnicodeDecodeError under "strict"; under
\* "surrogateescape" they become lone surrogates, which are not JSON.
json_load(payload, errors) ==
    IF payload.kind = "json"
    THEN [raised |-> "none", value |-> [type |-> payload.type, flag |-> payload.flag]]
    ELSE IF payload.kind = "undecodable" /\ errors = "strict"
    THEN [raised |-> "UnicodeDecodeError", value |-> NoValue]
    ELSE [raised |-> "JSONDecodeError", value |-> NoValue]

\* Python truth value of a decoded stop_hook_active member ("str" is a
\* non-empty string such as "no").
Truthy(v) == v \in {"true", "str"}

\* A plausible slip: the member is looked up under another name, so the
\* default is what is read.
dict_get_wrong_key(d) == "false"

\* input_data.get("stop_hook_active", False) on a dict.
dict_get(d) == IF d.flag = "absent" THEN "false" ELSE d.flag

\* Only a dict has .get; every other JSON value raises AttributeError.
has_get(d) == d.type = "object"

\* ------------------------------------------------- version-control tool
\* Lines of "git status --porcelain", without the newline that ends each:
\* " M f" (modified, not staged), "A  g" (added, staged) and "?? "a b""
\* (untracked; a path with a space is quoted).  Git lists them in this order.
EntryList ==
    << <<SP, "M", SP, "f">>,
       <<"A", SP, SP, "g">>,
       <<"?", "?", SP, DQ, "a", SP, "b", DQ>> >>

NumEntries == Len(EntryList)

\* Working trees: the set of changed paths, as indices into EntryList.
Trees == {S \in SUBSET (1..NumEntries) : Cardinality(S) <= MaxEntries}

RECURSIVE PorcelainFrom(_, _)
PorcelainFrom(S, i) ==
    IF i > NumEntries THEN <<>>
    ELSE (IF i \in S THEN EntryList[i] \o <<NL>> ELSE <<>>) \o PorcelainFrom(S, i + 1)

\* Standard output of "git status --porcelain" on working tree S.
Porcelain(S) == PorcelainFrom(S, 1)

\* How the tool behaves when run: "absent" is not on the PATH; "exit0" prints
\* the status and succeeds; "exit128" prints nothing on standard output and
\* fails (not a repository); "exit1out" prints the status and then fails;
\* "hang" does not return within the timeout.
ToolBehaviours == {"absent", "exit0", "exit128", "exit1out", "hang"}

ToolStdout(t, S) == IF t \in {"exit0", "exit1out"} THEN Porcelain(S) ELSE <<>>

ToolReturnCode(t) == IF t = "exit0" THEN 0 ELSE IF t = "exit128" THEN 128 ELSE 1

\* str(e) of the two exceptions run_command catches.
TimeoutText == <<"Command '['git', 'status', '--porcelain']' timed out after 10 seconds">>
NotFoundText(what) == <<"[Errno 2] No such file or directory: '">> \o what \o <<"'">>

GitProgram == <<"git">>

\* run_command's timeout parameter, in seconds.
Timeout == 10

\* A plausible slip: the child is run without a timeout.
ExpiredNever(t) == FALSE

\* subprocess.run raises TimeoutExpired once the child has run this long.
Expired(t) == t >= Timeout

\* What subprocess.run does before the child runs: it changes to cwd and
\* executes the program.  "FileNotFoundError" and "NotADirectoryError" are
\* raised in the parent; "started" means the child is running.
Launch(cwd, t) ==
    IF PathKind(cwd) = "missing" THEN [raised |-> "FileNotFoundError", text |-> NotFoundText(cwd)]
    ELSE IF PathKind(cwd) = "file" THEN [raised |-> "NotADirectoryError", text |-> <<>>]
    ELSE IF t = "absent" THEN [raised |-> "FileNotFoundError", text |-> NotFoundText(GitProgram)]
    ELSE [raised |-> "none", text |-> <<>>]

\* run_command's except clause: return False, str(e)
on_error(text) == [ok |-> FALSE, text |-> text]

\* A plausible slip: the output is returned as the child wrote it.
on_complete_raw(returncode, out) == [ok |-> returncode = 0, text |-> out]

\* run_command's normal return: result.returncode == 0, result.stdout.strip()
on_complete(returncode, out) == [ok |-> returncode = 0, text |-> strip(out)]

\* ------------------------------------------------------------- output
\* The f-string of main(): the fixed template around the two parameters.
Prompt(status, session) ==
    <<"## Loop Agent - Uncommitted Changes Detected", NL, NL,
      "You have uncommitted changes:", NL, BT, BT, BT, NL>>
    \o status
    \o <<NL, BT, BT, BT, NL, NL, "Before stopping, ensure:", NL, NL,
         "1. **Tests pass** - If this project has a test suite, run it now", NL,
         "2. **Commit everything** - Including any updates to the progress file", NL, NL,
         "**Progress file:** Always APPEND to ", BT, ".claude/loop-progress/", "progress-">>
    \o session
    \o <<".txt", BT, " (never overwrite).", NL, NL,
         "Once tests pass and all changes are committed, you may stop.", NL>>

\* json.dumps of one character of a string.
EscapeChar(c) ==
    IF c = NL THEN <<BSL, "n">>
    ELSE IF c = DQ THEN <<BSL, DQ>>
    ELSE IF c = BSL THEN <<BSL, BSL>>
    ELSE <<c>>

\* json.dumps of the characters of a string, one after the other.
RECURSIVE JsonEscape(_)
JsonEscape(s) ==
    IF s = <<>> THEN <<>>
    ELSE IF Len(s) = 1 THEN EscapeChar(s[1])
    ELSE LET h == Len(s) \div 2 IN
         JsonEscape(SubSeq(s, 1, h)) \o JsonEscape(SubSeq(s, h + 1, Len(s)))

JsonString(s) == <<DQ>> \o JsonEscape(s) \o <<DQ>>

\* json.dumps of a dict given as a sequence of <<key, value>> pairs.
RECURSIVE JsonMembers(_)
JsonMembers(pairs) ==
    IF pairs = <<>> THEN <<>>
    ELSE JsonString(pairs[1][1]) \o <<":", SP>> \o JsonString(pairs[1][2])
         \o (IF Len(pairs) > 1 THEN <<",", SP>> ELSE <<>>)
         \o JsonMembers(Tail(pairs))

json_dumps(pairs) == <<"{">> \o JsonMembers(pairs) \o <<"}">>

\* A plausible slip: the other decision tag of the host's protocol.
BlockOutputApprove(prompt) == << <<<<"decision">>, <<"approve">>>>, <<<<"reason">>, prompt>> >>

\* output = {"decision": "block", "reason": prompt}
BlockOutput(prompt) == << <<<<"decision">>, <<"block">>>>, <<<<"reason">>, prompt>> >>

\* print(x): the text and a newline.
print(out, x) == out \o x \o <<NL>>

\* ------------------------------------------------------------- state
VARIABLES
    stdin,          \* the payload on standard input
    stdinErrors,    \* the error handler of sys.stdin
    env,            \* os.environ, restricted to EnvNames
    tool,           \* how the git program behaves when run
    tree,           \* the changed paths of the working tree
    head,           \* the committed history: the commit HEAD names
    progress,       \* the progress record: "absent" or its content
    pc,             \* the line of main() about to run, or "done"
    input_data,     \* main's input_data
    session_name,   \* main's session_name
    query_ok,       \* main's _ (run_command's success flag), "unset" before line 54
    git_status,     \* main's git_status
    child,          \* the subprocess: "none", "running", "reaped" or "killed"
    started,        \* number of subprocesses started so far
    elapsed,        \* seconds the running child has been waited for
    stdout,         \* the characters written to standard output
    stderr,         \* the exception whose traceback was written, or "none"
    exitCode,       \* the process's exit status, -1 while it runs
    exitLine,       \* the source line that ended the process, 0 while it runs
    runs,           \* number of invocations the host has started
    how,            \* how this invocation came about: "first", "repeat", "retry"
    blocks,         \* BLOCK verdicts the host has received in this stop attempt
    prev            \* what the previous invocation left, if there was one

vars == <<stdin, stdinErrors, env, tool, tree, head, progress, pc, input_data,
          session_name, query_ok, git_status, child, started, elapsed, stdout,
          stderr, exitCode, exitLine, runs, how, blocks, prev>>

\* What the process only reads or never touches, and what the host keeps.
world == <<stdin, stdinErrors, env, tool, tree, head, progress, runs, how, blocks, prev>>

Commits == {"c0", "c1"}
ProgressRecords == {"absent", "notes"}

NoPrev == [valid |-> FALSE, exitCode |-> -1, stdout |-> <<>>, stderr |-> "none"]

Environments ==
    {[n \in EnvNames |->
        CASE n = "CLAUDE_PIPELINE_AGENT" -> a
          [] n = "CLAUDE_PIPELINE_SESSION" -> s
          [] n = "CLAUDE_PROJECT_DIR" -> d] :
     a \in AgentValues, s \in SessionValues, d \in ProjectDirValues}

\* A process that has just started: nothing is carried into it.
ProcessStarted ==
    /\ pc = "l39"
    /\ input_data = NoValue
    /\ session_name = <<>>
    /\ query_ok = "unset"
    /\ git_status = <<>>
    /\ child = "none"
    /\ started = 0
    /\ elapsed = 0
    /\ stdout = <<>>
    /\ stderr = "none"
    /\ exitCode = -1
    /\ exitLine = 0

Init ==
    /\ stdin \in StdinPayloads
    /\ stdinErrors \in StdinErrorHandlers
    /\ env \in Environments
    /\ tool \in ToolBehaviours
    /\ tree \in Trees
    /\ head \in Commits
    /\ progress \in ProgressRecords
    /\ ProcessStarted
    /\ runs = 1
    /\ how = "first"
    /\ blocks = 0
    /\ prev = NoPrev

\* sys.exit(0) at the given line.
sys_exit(line) ==
    /\ pc' = "done"
    /\ exitCode' = 0
    /\ exitLine' = line
    /\ stderr' = stderr

\* An exception nobody catches: the interpreter prints the traceback on
\* standard error and the process ends with status 1.
Uncaught(exc, line) ==
    /\ pc' = "done"
    /\ exitCode' = 1
    /\ exitLine' = line
    /\ stderr' = exc

Goto(label) ==
    /\ pc' = label
    /\ UNCHANGED <<exitCode, exitLine, stderr>>

\* Line 54: _, git_status = run_command(...)
Assign(r) ==
    /\ query_ok' = (IF r.ok THEN "True" ELSE "False")
    /\ git_status' = r.text

\* A plausible slip: the test is inverted.
IsCleanInverted(status) == status # <<>>

\* A plausible slip: a status that was reported once is remembered and not
\* reported again.
IsCleanOrSeen(status) == status = <<>> \/ (prev.valid /\ prev.stdout # <<>>)

\* Line 57: not git_status
IsClean(status) == status = <<>>

\* Lines 38-41: try: input_data = json.load(sys.stdin)
\*              except json.JSONDecodeError: sys.exit(0)
LoadInput ==
    /\ pc = "l39"
    /\ LET r == json_load(stdin, stdinErrors) IN
        IF r.raised = "JSONDecodeError"
        THEN sys_exit(41) /\ UNCHANGED input_data
        ELSE IF r.raised # "none"
        THEN Uncaught(r.raised, 39) /\ UNCHANGED input_data
        ELSE Goto("l44") /\ input_data' = r.value
    /\ UNCHANGED <<world, session_name, query_ok, git_status, child, started, elapsed, stdout>>

\* A plausible slip: the filter is missing.
IsInactiveNever(e) == FALSE

\* Line 44: not get_env("CLAUDE_PIPELINE_AGENT")
IsInactive(e) == get_env(e, "CLAUDE_PIPELINE_AGENT", <<>>) = <<>>

\* Lines 44-45: if not get_env("CLAUDE_PIPELINE_AGENT"): sys.exit(0)
CheckActivation ==
    /\ pc = "l44"
    /\ IF IsInactive(env) THEN sys_exit(45) ELSE Goto("l48")
    /\ UNCHANGED <<world, input_data, session_name, query_ok, git_status, child, started, elapsed, stdout>>

\* Lines 48-49: if input_data.get("stop_hook_active", False): sys.exit(0)
CheckReentry ==
    /\ pc = "l48"
    /\ IF ~has_get(input_data) THEN Uncaught("AttributeError", 48)
       ELSE IF Truthy(dict_get(input_data)) THEN sys_exit(49)
       ELSE Goto("l51")
    /\ UNCHANGED <<world, input_data, session_name, query_ok, git_status, child, started, elapsed, stdout>>

\* Line 51: session_name = get_env("CLAUDE_PIPELINE_SESSION", "default")
ReadSession ==
    /\ pc = "l51"
    /\ session_name' = get_env(env, "CLAUDE_PIPELINE_SESSION", <<"default">>)
    /\ Goto("l54")
    /\ UNCHANGED <<world, input_data, query_ok, git_status, child, started, elapsed, stdout>>

\* Line 54 calling lines 24-31: subprocess.run starts git in the project
\* directory.  A missing directory or program is caught at line 33 and its
\* text becomes git_status; any other OSError leaves main uncaught.
StartQuery ==
    /\ pc = "l54"
    /\ LET l == Launch(get_env(env, "CLAUDE_PROJECT_DIR", getcwd), tool) IN
        IF l.raised = "FileNotFoundError"
        THEN /\ Assign(on_error(l.text))
             /\ Goto("l57")
             /\ UNCHANGED <<child, started>>
        ELSE IF l.raised # "none"
        THEN /\ Uncaught(l.raised, 54)
             /\ UNCHANGED <<query_ok, git_status, child, started>>
        ELSE /\ child' = "running"
             /\ started' = started + 1
             /\ Goto("run")
             /\ UNCHANGED <<query_ok, git_status>>
    /\ UNCHANGED <<world, input_data, session_name, elapsed, stdout>>

\* Lines 25-31: communicate() waits for the child; a second passes.  A tool
\* other than "hang" ends before the timeout.
Tick ==
    /\ pc = "run"
    /\ elapsed <= Timeout
    /\ ~Expired(elapsed)
    /\ tool = "hang" \/ ~Expired(elapsed + 1)
    /\ elapsed' = elapsed + 1
    /\ UNCHANGED <<world, pc, input_data, session_name, query_ok, git_status, child,
                   started, stdout, stderr, exitCode, exitLine>>

\* Line 32 returning to line 54: the child ended within the timeout.
QueryReturns ==
    /\ pc = "run"
    /\ tool # "hang"
    /\ ~Expired(elapsed)
    /\ child' = "reaped"
    /\ elapsed' = 0
    /\ Assign(on_complete(ToolReturnCode(tool), ToolStdout(tool, tree)))
    /\ Goto("l57")
    /\ UNCHANGED <<world, input_data, session_name, started, stdout>>

\* Lines 33-34 returning to line 54: the timeout expired, subprocess.run
\* killed the child and raised TimeoutExpired.
QueryTimesOut ==
    /\ pc = "run"
    /\ Expired(elapsed)
    /\ child' = "killed"
    /\ elapsed' = 0
    /\ Assign(on_error(TimeoutText))
    /\ Goto("l57")
    /\ UNCHANGED <<world, input_data, session_name, started, stdout>>

\* Lines 57-58: if not git_status: sys.exit(0)
CheckClean ==
    /\ pc = "l57"
    /\ IF IsClean(git_status) THEN sys_exit(58) ELSE Goto("l61")
    /\ UNCHANGED <<world, input_data, session_name, query_ok, git_status, child, started, elapsed, stdout>>

\* A plausible slip: the gate appends to the progress record itself.
EmitBlockWritesProgress ==
    /\ pc = "l61"
    /\ stdout' = print(stdout, json_dumps(BlockOutput(Prompt(git_status, session_name))))
    /\ sys_exit(80)
    /\ progress' = "notes"
    /\ UNCHANGED <<stdin, stdinErrors, env, tool, tree, head, runs, how, blocks, prev,
                   input_data, session_name, query_ok, git_status, child, started, elapsed>>

\* Lines 61-80: build the prompt, print the payload, sys.exit(0)
EmitBlock ==
    /\ pc = "l61"
    /\ stdout' = print(stdout, json_dumps(BlockOutput(Prompt(git_status, session_name))))
    /\ sys_exit(80)
    /\ UNCHANGED <<world, input_data, session_name, query_ok, git_status, child, started, elapsed>>

Next ==
    \/ LoadInput
    \/ CheckActivation
    \/ CheckReentry
    \/ ReadSession
    \/ StartQuery
    \/ Tick
    \/ QueryReturns
    \/ QueryTimesOut
    \/ CheckClean
    \/ EmitBlock

Spec == Init /\ [][Next]_vars

\* Invocations as far as termination goes: whether a run ends depends on
\* nothing that the gate never reads (the history, the progress record) nor
\* on the session name, and on the working tree only through its being clean
\* or dirty, so these are fixed or cut down.
FairInit ==
    /\ Init
    /\ head = "c0"
    /\ progress = "absent"
    /\ env["CLAUDE_PIPELINE_SESSION"] = Unset
    /\ tree \in {{}, {1}}

\* The process is scheduled and the clock advances: a statement that can run
\* does run, and a child that can end does end.
FairSpec == FairInit /\ [][Next]_vars /\ WF_vars(Next)

\* ------------------------------------------------------------- the host
\* The host's side of the protocol, for what concerns several invocations.
\* Each invocation is a new process: nothing of the last one is carried over
\* but what the host remembers of it.
Outcome == [valid |-> TRUE, exitCode |-> exitCode, stdout |-> stdout, stderr |-> stderr]

NewProcess ==
    /\ pc' = "l39"
    /\ input_data' = NoValue
    /\ session_name' = <<>>
    /\ query_ok' = "unset"
    /\ git_status' = <<>>
    /\ child' = "none"
    /\ started' = 0
    /\ elapsed' = 0
    /\ stdout' = <<>>
    /\ stderr' = "none"
    /\ exitCode' = -1
    /\ exitLine' = 0

\* The host runs the gate again at once with the same payload and the same
\* environment, on an unchanged repository: a new stop attempt.
HostRepeats ==
    /\ pc = "done"
    /\ runs < MaxInvocations
    /\ NewProcess
    /\ runs' = runs + 1
    /\ how' = "repeat"
    /\ blocks' = 0
    /\ prev' = Outcome
    /\ UNCHANGED <<stdin, stdinErrors, env, tool, tree, head, progress>>

\* After a BLOCK the agent goes on, having committed its work or not, and
\* tries to stop again; the host runs the gate for the same stop attempt with
\* stop_hook_active true.
HostRetries ==
    /\ pc = "done"
    /\ exitCode = 0
    /\ stdout # <<>>
    /\ runs < MaxInvocations
    /\ NewProcess
    /\ runs' = runs + 1
    /\ how' = "retry"
    /\ blocks' = blocks + 1
    /\ prev' = Outcome
    /\ stdin' = [kind |-> "json", type |-> "object", flag |-> "true"]
    /\ \/ UNCHANGED <<tree, head>>
       \/ tree # {} /\ tree' = {} /\ head' = "c1"
    /\ UNCHANGED <<stdinErrors, env, tool, progress>>

\* The first invocation of a behaviour, on a repository at its first commit
\* and with no progress record yet.
HostInit ==
    /\ Init
    /\ head = "c0"
    /\ progress = "absent"

HostNext == Next \/ HostRepeats \/ HostRetries

HostSpec == HostInit /\ [][HostNext]_vars

\* ------------------------------------------------- reading the output
\* The host's side of the output protocol: standard output is cut into
\* lines and each line is parsed as a JSON object with string members.

At(t, i) == IF i >= 1 /\ i <= Len(t) THEN t[i] ELSE "EOF"

\* The positions from a to b, in order.
Positions(a, b) == [k \in 1..(b - a + 1) |-> a + k - 1]

\* Length of the run of backslashes that ends at position i.
RECURSIVE BackslashRun(_, _)
BackslashRun(t, i) == IF At(t, i) = BSL THEN 1 + BackslashRun(t, i - 1) ELSE 0

\* The character at i follows an odd run of backslashes: it is escaped.
Escaped(t, i) == BackslashRun(t, i - 1) % 2 = 1

\* The quotes that open or close a string.
Quotes(t) == SelectSeq(Positions(1, Len(t)), LAMBDA i : t[i] = DQ /\ ~Escaped(t, i))

UnescapeChar(c) == IF c = "n" THEN NL ELSE c

\* The string whose quotes are at a and b.
StringBetween(t, a, b) ==
    LET P == SelectSeq(Positions(a + 1, b - 1), LAMBDA j : t[j] # BSL \/ Escaped(t, j)) IN
    [k \in 1..Len(P) |-> IF Escaped(t, P[k]) THEN UnescapeChar(t[P[k]]) ELSE t[P[k]]]

\* {"k": "v", "k": "v"} with the separators json.dumps writes.
json_loads(t) ==
    LET q == Quotes(t)
        n == Len(q) \div 4
        wellFormed ==
            /\ Len(q) = 4 * n
            /\ n >= 1
            /\ At(t, 1) = "{"
            /\ q[1] = 2
            /\ q[4 * n] = Len(t) - 1
            /\ At(t, Len(t)) = "}"
            /\ \A m \in 1..n :
                SubSeq(t, q[4 * m - 2] + 1, q[4 * m - 1] - 1) = <<":", SP>>
            /\ \A m \in 1..(n - 1) :
                SubSeq(t, q[4 * m] + 1, q[4 * m + 1] - 1) = <<",", SP>>
    IN  IF wellFormed
        THEN [ok |-> TRUE,
              obj |-> [m \in 1..n |->
                        <<StringBetween(t, q[4 * m - 3], q[4 * m - 2]),
                          StringBetween(t, q[4 * m - 1], q[4 * m])>>]]
        ELSE [ok |-> FALSE, obj |-> <<>>]

\* The value of a member, or <<"(missing)">>.
Member(obj, key) ==
    IF \E i \in 1..Len(obj) : obj[i][1] = key
    THEN obj[CHOOSE i \in 1..Len(obj) : obj[i][1] = key][2]
    ELSE <<"(missing)">>

\* The lines of a text; a last line without a newline is kept as it is.
Lines(t) ==
    LET ends == SelectSeq(Positions(1, Len(t)), LAMBDA i : t[i] = NL)
                \o (IF t # <<>> /\ t[Len(t)] # NL THEN <<Len(t) + 1>> ELSE <<>>)
    IN  [k \in 1..Len(ends) |->
            SubSeq(t, (IF k = 1 THEN 1 ELSE ends[k - 1] + 1), ends[k] - 1)]

Done == pc = "done"

\* Neutral allow: status 0 and nothing on standard output.
Allow == Done /\ exitCode = 0 /\ stdout = <<>>

\* The one payload on standard output, when there is exactly one.
Payload == json_loads(Lines(stdout)[1])

\* Block: status 0 and exactly one complete payload tagged "block".
Block ==
    /\ Done
    /\ exitCode = 0
    /\ Len(Lines(stdout)) = 1
    /\ stdout[Len(stdout)] = NL
    /\ Payload.ok
    /\ Member(Payload.obj, <<"decision">>) = <<"block">>

Reason == Member(Payload.obj, <<"reason">>)

\* ------------------------------------------------------------- claims
\* What an invocation was given, read from the inputs themselves.
ActivationSet ==
    env["CLAUDE_PIPELINE_AGENT"].set /\ env["CLAUDE_PIPELINE_AGENT"].val # <<>>

IsObject == stdin.kind = "json" /\ stdin.type = "object"
FlagTrue == IsObject /\ stdin.flag = "true"
FlagFalseOrAbsent == IsObject /\ stdin.flag \in {"false", "absent"}

\* run_command came back and reported failure: the tool or the directory was
\* not found, the timeout expired, or the exit status was not zero.
QueryFailed == query_ok = "False"

\* run_command came back and reported success.
QuerySucceeded == query_ok = "True"

\* The status query was attempted.
QueryIssued == started > 0 \/ query_ok # "unset" \/ exitLine = 54

ConfiguredSession ==
    IF env["CLAUDE_PIPELINE_SESSION"].set
    THEN env["CLAUDE_PIPELINE_SESSION"].val
    ELSE <<"default">>

ProgressName == <<"progress-">> \o ConfiguredSession \o <<".txt">>

\* C1: fail-open.  When the gate is active, not re-entered and the status
\* query fails (tool not found, timeout, non-zero exit), the invocation ends
\* in ALLOW with no output, whatever text the failed query produced.
C1_FailOpen == (Done /\ ActivationSet /\ QueryFailed) => Allow

\* C2: the exit status is 0 on every path and no uncaught exception reaches
\* the host, for every payload, environment and outcome of the query.
C2_ExitZero == Done => (exitCode = 0 /\ stderr = "none")

\* C3: with the activation switch unset or empty every invocation ends in
\* ALLOW (status 0, nothing on standard output), whatever the payload, the
\* re-entrancy flag and the repository.
C3_InactiveAllows == (Done /\ ~ActivationSet) => Allow

\* C4: with the gate active and stop_hook_active true in the payload the
\* invocation ends in ALLOW with no output, whatever the repository; a dirty
\* working tree does not block a re-entrant invocation.
C4_ReentryAllows == (Done /\ ActivationSet /\ FlagTrue) => Allow

C4_Witness ==
    /\ Done /\ ActivationSet /\ FlagTrue
    /\ tool = "exit0" /\ tree # {}
    /\ exitLine = 49 /\ Allow

\* C5: with the gate active, stop_hook_active false or absent in a well-formed
\* payload, and a status query that succeeds with non-empty status text, the
\* invocation ends in BLOCK: status 0 and exactly one JSON payload on standard
\* output whose decision is "block".
C5_DirtyBlocks ==
    (/\ Done /\ ActivationSet /\ FlagFalseOrAbsent
     /\ QuerySucceeded /\ ToolStdout(tool, tree) # <<>>) => Block

C5_Witness ==
    /\ Block /\ ActivationSet /\ stdin.flag = "absent"
    /\ QuerySucceeded /\ tree # {} /\ exitLine = 80

\* x is s without its leading and trailing whitespace.
IsStripOf(x, s) ==
    \E i, j \in 0..Len(s) :
        /\ i + j <= Len(s)
        /\ x = SubSeq(s, i + 1, Len(s) - j)
        /\ \A k \in 1..i : s[k] \in {SP, NL}
        /\ \A k \in (Len(s) - j + 1)..Len(s) : s[k] \in {SP, NL}
        /\ x # <<>> => (x[1] \notin {SP, NL} /\ x[Len(x)] \notin {SP, NL})

C7_CleanAllows ==
    (/\ Done /\ ActivationSet /\ FlagFalseOrAbsent
     /\ QuerySucceeded /\ ToolStdout(tool, tree) = <<>>) => Allow

C7_Witness ==
    /\ Done /\ ActivationSet /\ stdin.flag = "false"
    /\ QuerySucceeded /\ tree = {} /\ exitLine = 58 /\ Allow

\* C8: a missing or malformed payload is not fatal: the invocation ends with
\* status 0, no output and no BLOCK, for every activation setting and every
\* repository state.
C8_MalformedNeutral == (Done /\ stdin.kind # "json") => Allow

\* C9: the gate activates only when CLAUDE_PIPELINE_AGENT is "1": under every
\* other value (unset, empty, "0", "false", ...) the invocation never issues
\* the status query and never emits BLOCK.
C9_OnlyOneActivates ==
    env["CLAUDE_PIPELINE_AGENT"] # SetTo(<<"1">>) => (~QueryIssued /\ ~Block)

\* The five branches of the state machine, as conditions on the invocation.
Branch(b) ==
    CASE b = 1 -> ~ActivationSet
      [] b = 2 -> ActivationSet /\ IsObject /\ Truthy(stdin.flag)
      [] b = 3 -> QueryFailed
      [] b = 4 -> QuerySucceeded /\ git_status = <<>>
      [] b = 5 -> QuerySucceeded /\ git_status # <<>>

\* C10: every invocation ends in exactly one of ALLOW (no output) and BLOCK
\* (one complete payload); for a well-formed payload exactly one of the five
\* branches inactive, re-entered, query failed, status empty, status
\* non-empty is taken; nothing is emitted twice or in part.
C10_TwoTerminalStates ==
    Done =>
        /\ Allow \/ Block
        /\ ~(Allow /\ Block)
        /\ stdin.kind = "json" => Cardinality({b \in 1..5 : Branch(b)}) = 1

C12_QueryAfterGuards ==
    /\ QueryIssued => (ActivationSet /\ IsObject /\ ~Truthy(stdin.flag))
    /\ started <= 1

C12_Witness ==
    /\ Done /\ started = 1 /\ child = "killed"
    /\ ActivationSet /\ stdin.flag = "false"

\* C13: with a host that runs the gate again with stop_hook_active true after
\* each BLOCK of a stop attempt, the gate blocks at most once in the attempt
\* and, for a payload of the protocol, every invocation of the attempt that
\* does not block ends in ALLOW, also when the tree stays dirty or the query
\* keeps failing.
C13_AttemptEndsInAllow ==
    /\ blocks <= 1
    /\ (Done /\ IsObject) => (Allow \/ (Block /\ blocks = 0))

\* The part of C13 that holds: at most one BLOCK in a stop attempt, and the
\* invocation that follows a BLOCK always ends in ALLOW.
RetryAlwaysAllows ==
    /\ blocks <= 1
    /\ (Done /\ how = "retry") => Allow

C15_ProgressRecordName ==
    Block =>
        Contains(Reason,
            <<".claude/loop-progress/", "progress-">>
            \o (IF env["CLAUDE_PIPELINE_SESSION"].set
                THEN env["CLAUDE_PIPELINE_SESSION"].val
                ELSE <<"default">>)
            \o <<".txt">>)

C15_Witness ==
    /\ Block /\ ~env["CLAUDE_PIPELINE_SESSION"].set
    /\ Contains(Reason, <<"progress-", "default", ".txt">>)

\* C16: an invocation only observes: no step of it changes the working tree,
\* the committed history, the progress record or the environment.
C16_OnlyObserves ==
    [][tree' = tree /\ head' = head /\ progress' = progress /\ env' = env]_vars

C16_Witness ==
    /\ Done /\ exitLine = 80 /\ tree # {}
    /\ progress = "absent" /\ child = "reaped"
====
